---------------------------- MODULE Spec2Model ----------------------------
(***************************************************************************)
(* Screen Translation: region selector, OCR text extractor, translator and *)
(* the pipeline orchestrator of src/main.py, as one state machine.         *)
(*                                                                         *)
(* Text is a sequence of tokens.  A token is either one character (a       *)
(* one-character string) or a literal chunk: a multi-character string that *)
(* stands for a piece of message text written in the source, made of word  *)
(* characters, single blanks and plain punctuation only, with no leading   *)
(* or trailing blank, so that no step of the text processing below can     *)
(* split it.                                                               *)
(***************************************************************************)
EXTENDS Integers, Sequences, FiniteSets, TLC

None == "None"

-----------------------------------------------------------------------------
(* Python string primitives on token sequences *)

\* characters str.strip() removes that the model's texts use
Whitespace == {" ", "\t", "\n"}

\* the word characters (regex \w) the model's texts draw single characters from
WordChars == {"H", "i", "a", "b", "T", "r", "n", "s", "l", "t", "o", "h", "1", "2", "3", "_", "u65e5"}

\* A character outside ASCII is written as its code point: "u2502" is U+2502.
\* box-drawing glyphs of the first noise pattern
BoxChars == {"u2502", "u2551"}
\* shapes and CJK brackets: noise for the Windows cleaner only
ShapeChars == {"u25cf", "u300c"}
\* control characters, zero-width characters and the soft hyphen
CtrlChars == {"u0001", "u200b"}
\* the arrow used in the language-pack guidance text
ArrowChar == "u2192"

\* one-character tokens that are neither blanks nor word characters
PunctChars == {".", "!", "?", ":", "\"", "'", "-", ","} \cup BoxChars \cup ShapeChars \cup CtrlChars \cup {ArrowChar}

IsChunk(c) == c \notin (Whitespace \cup WordChars \cup PunctChars)

\* str.lower()
Lower(s) == [i \in 1..Len(s) |-> CASE s[i] = "T" -> "t"
                                    [] s[i] = "H" -> "h"
                                    [] OTHER -> s[i]]

RECURSIVE LStrip(_)
LStrip(s) == IF s # <<>> /\ Head(s) \in Whitespace THEN LStrip(Tail(s)) ELSE s

RECURSIVE RStrip(_)
RStrip(s) == IF s # <<>> /\ s[Len(s)] \in Whitespace
             THEN RStrip(SubSeq(s, 1, Len(s) - 1)) ELSE s

\* str.strip()
Strip(s) == RStrip(LStrip(s))

\* str.startswith(prefix)
StartsWith(s, p) == Len(s) >= Len(p) /\ SubSeq(s, 1, Len(p)) = p

\* str.endswith(suffix)
EndsWith(s, p) == Len(s) >= Len(p) /\ SubSeq(s, Len(s) - Len(p) + 1, Len(s)) = p

\* the Python test  sub in s
Contains(s, sub) == \E i \in 1..(Len(s) - Len(sub) + 1) : SubSeq(s, i, i + Len(sub) - 1) = sub

\* sep.join(parts)
RECURSIVE Join(_, _)
Join(sep, parts) == IF parts = <<>> THEN <<>>
                    ELSE IF Len(parts) = 1 THEN parts[1]
                    ELSE parts[1] \o sep \o Join(sep, Tail(parts))

-----------------------------------------------------------------------------
(* OCR text cleaning *)

\* number of characters of a token
CharLen(c) == IF IsChunk(c) THEN Len(c) ELSE 1

RECURSIVE TextLen(_)
\* len(text)
TextLen(s) == IF s = <<>> THEN 0 ELSE CharLen(Head(s)) + TextLen(Tail(s))

\* matches of the class [\w, kana, CJK ideographs, hangul] in one
\* token; a chunk holds two word characters or more, and every test made on
\* this count is a comparison with 2 or less
MeaningfulTok(c) == IF c \in WordChars THEN 1 ELSE IF IsChunk(c) THEN 2 ELSE 0

RECURSIVE MeaningfulCount(_)
MeaningfulCount(s) == IF s = <<>> THEN 0
                      ELSE MeaningfulTok(Head(s)) + MeaningfulCount(Tail(s))

\* re.sub('[...]', '', s) for a character class
RemoveChars(s, cls) == SelectSeq(s, LAMBDA c : c \notin cls)

RECURSIVE RunLen(_, _)
\* length of the longest prefix of s made of characters of cls
RunLen(s, cls) == IF s # <<>> /\ Head(s) \in cls THEN 1 + RunLen(Tail(s), cls) ELSE 0

RECURSIVE CollapseRuns_fixed_length(_, _, _, _)
\* re.sub('[cls]{minLen}', repl, s): a pattern without the open upper bound
CollapseRuns_fixed_length(s, cls, minLen, repl) ==
    IF s = <<>> THEN <<>>
    ELSE IF RunLen(s, cls) >= minLen
         THEN repl \o CollapseRuns_fixed_length(SubSeq(s, minLen + 1, Len(s)), cls, minLen, repl)
         ELSE <<Head(s)>> \o CollapseRuns_fixed_length(Tail(s), cls, minLen, repl)

RECURSIVE CollapseRuns(_, _, _, _)
\* re.sub('[cls]{minLen,}', repl, s): the pattern is greedy, so every maximal
\* run of at least minLen characters of cls becomes repl
CollapseRuns(s, cls, minLen, repl) ==
    IF s = <<>> THEN <<>>
    ELSE LET n == RunLen(s, cls)
         IN  IF n = 0
             THEN <<Head(s)>> \o CollapseRuns(Tail(s), cls, minLen, repl)
             ELSE (IF n >= minLen THEN repl ELSE SubSeq(s, 1, n))
                  \o CollapseRuns(SubSeq(s, n + 1, Len(s)), cls, minLen, repl)

RECURSIVE SplitLines(_)
\* s.split('\n')
SplitLines(s) ==
    LET n == RunLen(s, {s[i] : i \in 1..Len(s)} \ {"\n"})
    IN  IF n = Len(s) THEN <<s>>
        ELSE <<SubSeq(s, 1, n)>> \o SplitLines(SubSeq(s, n + 2, Len(s)))

\* the three punctuation substitutions shared by both cleaners
CollapsePunctuation(s) ==
    CollapseRuns(CollapseRuns(CollapseRuns(s, {"."}, 4, <<".", ".", ".">>),
                              {"!"}, 3, <<"!", "!">>),
                 {"?"}, 3, <<"?", "?">>)

\* the two whitespace substitutions shared by both cleaners
CollapseWhitespace(s) ==
    CollapseRuns(CollapseRuns(s, {" ", "\t"}, 3, <<" ", " ">>), {"\n"}, 3, <<"\n", "\n">>)

\* the test that keeps a line in WindowsOCR._clean_ocr_text
KeepLine(line) ==
    LET meaningful == MeaningfulCount(line)
        total      == TextLen(Strip(line))
    IN  /\ total # 0
        /\ (meaningful >= 2 \/ meaningful * 10 > 3 * total)

\* WindowsOCR._clean_ocr_text
WindowsOCR_clean_ocr_text(text) ==
    IF text = <<>> THEN <<>>
    ELSE LET denoised == RemoveChars(text, BoxChars \cup ShapeChars \cup CtrlChars)
             punct    == CollapsePunctuation(denoised)
             kept     == SelectSeq(SplitLines(punct), KeepLine)
         IN  Strip(CollapseWhitespace(Join(<<"\n">>, kept)))

\* OCREngine._clean_ocr_text
OCREngine_clean_ocr_text(text) ==
    IF text = <<>> THEN <<>>
    ELSE Strip(CollapseWhitespace(CollapsePunctuation(RemoveChars(text, BoxChars \cup CtrlChars))))

-----------------------------------------------------------------------------
(* Image preprocessing: src/ocr_engine.py.  Only the size of the image is
   modelled.  A scale is a fraction <<numerator, denominator>>. *)

\* the largest dimension _preprocess_for_windows_ocr lets through
max_dimension == 4000

\* min_dimension of OCREngine.preprocess_image and of
\* WindowsOCR._preprocess_for_windows_ocr
min_dimension(path) == IF path = "windows" THEN 800 ELSE 600

Smaller(a, b) == IF a[1] * b[2] < b[1] * a[2] THEN a ELSE b
Larger(a, b) == IF a[1] * b[2] < b[1] * a[2] THEN b ELSE a

\* int(x * scale) in binary floating point: the quotient scale is rounded
\* unless it is a whole number, so a product that is a whole number in exact
\* arithmetic can come out just under it (int(281 * (600 / 281)) is 599)
Scaled(x, scale) ==
    LET q == (x * scale[1]) \div scale[2]
    IN  IF (x * scale[1]) % scale[2] = 0 /\ scale[1] % scale[2] # 0 THEN {q, q - 1} ELSE {q}

\* the sizes image.resize can be asked for
Resized(w, h, scale) == {<<nw, nh>> : nw \in Scaled(w, scale), nh \in Scaled(h, scale)}

\* OCREngine.preprocess_image: the size of the image it returns
preprocess_image(w, h) ==
    IF w < min_dimension("default") \/ h < min_dimension("default")
    THEN Resized(w, h, Larger(<<min_dimension("default"), w>>, <<min_dimension("default"), h>>))
    ELSE {<<w, h>>}

\* WindowsOCR._preprocess_for_windows_ocr: the size of the image it returns
preprocess_for_windows_ocr(width, height) ==
    LET \* the upscaling step, with its check against max_dimension
        upscale(w, h) ==
            IF w < min_dimension("windows") \/ h < min_dimension("windows")
            THEN LET scale == Smaller(Smaller(<<min_dimension("windows"), w>>,
                                              <<min_dimension("windows"), h>>), <<5, 2>>)
                 IN  {IF s[1] <= max_dimension /\ s[2] <= max_dimension THEN s ELSE <<w, h>> :
                        s \in Resized(w, h, scale)}
            ELSE {<<w, h>>}
    IN  IF width > max_dimension \/ height > max_dimension
        THEN UNION {upscale(s[1], s[2]) :
                      s \in Resized(width, height, Smaller(<<max_dimension, width>>,
                                                           <<max_dimension, height>>))}
        ELSE upscale(width, height)

-----------------------------------------------------------------------------
(* Text extractor: src/ocr_engine.py *)

\* An answer of a recognizer (winocr.recognize_pil, pytesseract.image_to_string):
\* the recognized text, or an exception with its message.
Recognized(t) == [kind |-> "text", text |-> t]
Raised(m) == [kind |-> "raise", msg |-> m]

\* the ordered candidate language tags of do_ocr
common_langs == <<"ja-JP", "en-US", "ko-KR", "zh-CN", "zh-TW">>

\* WindowsOCR.LANG_MAP.get(lang, 'en-US')
LANG_MAP(lang) == CASE lang = "ja" -> "ja-JP"
                    [] lang = "ko" -> "ko-KR"
                    [] lang = "zh" -> "zh-CN"
                    [] lang = "fr" -> "fr-FR"
                    [] lang = "en" -> "en-US"
                    [] OTHER -> "en-US"

\* the threshold a candidate's score must exceed
ScoreThreshold == 5

\* the score of one candidate response
Score(text) == TextLen(Strip(text)) + 2 * MeaningfulCount(text)

\* the text of EmptyResult
NoTextDetected == <<"No text detected">>

\* the text of ErrorResult
LanguagePackGuidance ==
    <<"No text detected", ".", " ", "For Japanese/Korean/Chinese", ":", "\n", "\n",
      "1", ".", " ", "Install Windows language pack", ":", "\n",
      " ", " ", " ", "Settings", " ", ArrowChar, " ", "Time & Language", " ", ArrowChar,
      " ", "Language & Region", "\n",
      " ", " ", " ", ArrowChar, " ", "Add language", " ", ArrowChar, " ",
      "Select Japanese/Korean/Chinese", "\n",
      " ", " ", " ", ArrowChar, " ", "Download & install", "\n", "\n",
      "2", ".", " ", "Or switch to Tesseract OCR in Settings">>

\* the message WindowsOCR.extract_text returns when winocr is missing
WinocrMissingLong ==
    <<"Windows", " ", "OCR Error", ":", " ", "winocr not installed", ".", "\n", "\n",
      "To install", ":", "\n", " ", " ", "pip install winocr", "\n", "\n",
      "For Japanese support, also install Windows language pack", ":", "\n",
      "1", ".", " ", "Settings", " ", ArrowChar, " ", "Time & Language", " ", ArrowChar,
      " ", "Language", "\n",
      "2", ".", " ", "Add Japanese language", "\n",
      "3", ".", " ", "Download language pack (includes OCR)", "\n", "\n",
      "Alternatively, use Tesseract OCR instead", ".">>

\* the message OCREngine.extract_text returns when the availability flag is false
WinocrMissingShort ==
    <<"Windows", " ", "OCR Error", ":", " ", "winocr not installed", ".", " ",
      "Run", ":", " ", "pip install winocr">>

\* the loop body keeping a candidate that equals the best score so far
OcrCandidate_keeps_ties(acc, out) ==
    IF out.kind = "raise" THEN [acc EXCEPT !.failed = TRUE, !.err = out.msg]
    ELSE IF out.text # <<>> /\ TextLen(Strip(out.text)) > 0 /\ Score(out.text) >= acc.score
         THEN [acc EXCEPT !.found = TRUE, !.best = out.text, !.score = Score(out.text)]
         ELSE acc

\* one iteration of the candidate loop of do_ocr on the accumulators:
\* found and best are best_result (found is false while it is None), score is
\* best_score, failed and err are last_error (failed is false while it is None)
OcrCandidate(acc, out) ==
    IF out.kind = "raise" THEN [acc EXCEPT !.failed = TRUE, !.err = out.msg]
    ELSE IF out.text # <<>> /\ TextLen(Strip(out.text)) > 0 /\ Score(out.text) > acc.score
         THEN [acc EXCEPT !.found = TRUE, !.best = out.text, !.score = Score(out.text)]
         ELSE acc

RECURSIVE OcrLoop(_, _)
\* the candidate loop of do_ocr over the answers to common_langs, in order
OcrLoop(acc, outs) == IF outs = <<>> THEN acc
                      ELSE OcrLoop(OcrCandidate(acc, Head(outs)), Tail(outs))

\* do_ocr: outs are the recognizer's answers for common_langs, req its answer
\* for the requested language's tag.  The result is the text of the returned
\* result object, or the exception raised; calls lists the tags asked.
do_ocr(outs, req, lang) ==
    LET acc  == OcrLoop([found |-> FALSE, best |-> <<>>, score |-> 0,
                             failed |-> FALSE, err |-> <<>>], outs)
        good == acc.found /\ acc.score > ScoreThreshold
        ask  == lang # "auto" /\ lang # "en"
        failed == acc.failed \/ (ask /\ req.kind = "raise")
        err  == IF ask /\ req.kind = "raise" THEN req.msg ELSE acc.err
        \* the test for a language-pack problem on str(last_error).lower()
        pack == \/ Contains(Lower(err), <<"language">>)
                \/ Contains(Lower(err), <<"not installed">>)
                \/ Contains(Lower(err), <<"not available">>)
        asked == IF good THEN common_langs
                 ELSE IF ask THEN Append(common_langs, LANG_MAP(lang)) ELSE common_langs
    IN  IF good
        THEN [res |-> Recognized(acc.best), calls |-> asked]
        ELSE IF ask /\ req.kind = "text"
        THEN [res |-> req, calls |-> asked]
        ELSE IF failed
        THEN [res |-> IF pack THEN Recognized(LanguagePackGuidance)
                      ELSE Raised(err),
              calls |-> asked]
        ELSE [res |-> Recognized(NoTextDetected), calls |-> asked]

\* WindowsOCR.extract_text
WindowsOCR_extract_text(available, outs, req, lang) ==
    IF ~available THEN [text |-> WinocrMissingLong, calls |-> <<>>]
    ELSE LET r == do_ocr(outs, req, lang)
         IN  IF r.res.kind = "raise"
             THEN [text |-> <<"Windows", " ", "OCR Error", ":", " ">> \o r.res.msg,
                   calls |-> r.calls]
             ELSE [text |-> WindowsOCR_clean_ocr_text(r.res.text), calls |-> r.calls]

\* OCREngine._extract_with_tesseract
OCREngine_extract_with_tesseract(tess) ==
    IF tess.kind = "raise"
    THEN [text |-> <<"OCR Error", ":", " ">> \o tess.msg, calls |-> <<"tesseract">>]
    ELSE [text |-> OCREngine_clean_ocr_text(tess.text), calls |-> <<"tesseract">>]

\* the lang argument extract_text passes:  self.language if self.language else 'auto'
WinLang(language) == IF language # None THEN language ELSE "auto"

\* extract_text handing the image to the Windows recognizer without testing
\* the availability flag
OCREngine_extract_text_unchecked(backend, available, language, env) ==
    IF backend = "windows"
    THEN WindowsOCR_extract_text(TRUE, env.win, env.req, WinLang(language))
    ELSE OCREngine_extract_with_tesseract(env.tess)

\* OCREngine.extract_text for an image that is not None; language is
\* self.language ("None" after set_language('auto')), env the recognizers' answers
OCREngine_extract_text(backend, available, language, env) ==
    IF backend = "windows"
    THEN IF available
         THEN WindowsOCR_extract_text(available, env.win, env.req, WinLang(language))
         ELSE [text |-> WinocrMissingShort, calls |-> <<>>]
    ELSE OCREngine_extract_with_tesseract(env.tess)

-----------------------------------------------------------------------------
(* Translator: src/translation_engine.py *)

\* dict.get(key, default) on a configuration record
Get(cfg, key, default) == IF key \in DOMAIN cfg THEN cfg[key] ELSE default

\* lang_names.get(target_lang, target_lang)
lang_names(code) == CASE code = "es" -> "Spanish"
                      [] code = "en" -> "English"
                      [] code = "fr" -> "French"
                      [] code = "de" -> "German"
                      [] code = "it" -> "Italian"
                      [] code = "pt" -> "Portuguese"
                      [] code = "ru" -> "Russian"
                      [] code = "ja" -> "Japanese"
                      [] code = "ko" -> "Korean"
                      [] code = "zh" -> "Chinese"
                      [] code = "ar" -> "Arabic"
                      [] code = "hi" -> "Hindi"
                      [] code = "vi" -> "Vietnamese"
                      [] code = "th" -> "Thai"
                      [] OTHER -> code

\* Answers of the HTTP library: a response with its status, its decoded JSON
\* (json_ok is false when decoding the body or reading the expected shape
\* raises) and its body text, or one of the exceptions the code tells apart.
HttpResponse(status, json_ok, json, body) ==
    [kind |-> "response", status |-> status, json_ok |-> json_ok, json |-> json,
     body |-> body]
HttpConnectionError == [kind |-> "ConnectionError"]
HttpTimeout == [kind |-> "Timeout"]

\* the label removed from the head of a response, as compared after lower()
TranslationLabel == <<"t", "r", "a", "n", "s", "l", "a", "t", "i", "o", "n", ":">>

\* the number of characters translation[12:] drops
LabelLen == 12

\* the number of characters of the response body kept in an HTTP error
BodyShown == 200

RECURSIVE TakeChars(_, _)
\* s[:n]
TakeChars(s, n) == IF s = <<>> \/ CharLen(Head(s)) > n THEN <<>>
                   ELSE <<Head(s)>> \o TakeChars(Tail(s), n - CharLen(Head(s)))

\* the clean-up of a 200 response's text
CleanResponse(response) ==
    LET t0 == Strip(response)
        t1 == IF StartsWith(Lower(t0), TranslationLabel)
              THEN Strip(SubSeq(t0, LabelLen + 1, Len(t0)))
              ELSE t0
    \* translation[1:-1] when the whole response is quoted
    IN  IF \/ (StartsWith(t1, <<"\"">>) /\ EndsWith(t1, <<"\"">>))
           \/ (StartsWith(t1, <<"'">>) /\ EndsWith(t1, <<"'">>))
        THEN SubSeq(t1, 2, Len(t1) - 1)
        ELSE t1

\* the listing cut to the first name, as  available_models[:1]
ModelNotFoundListed_truncated(model, names) ==
    <<"Ollama Error", ":", " ", "Model", " ", "'">> \o model
    \o <<"'", " ", "not found", ".", "\n", "\n", "Available models", ":", " ">>
    \o Join(<<",", " ">>, IF names = <<>> THEN <<>> ELSE <<names[1]>>)
    \o <<"\n", "\n", "Please update the model name in Settings", ".">>

\* the error returned on 404 when the model list was fetched
ModelNotFoundListed(model, names) ==
    <<"Ollama Error", ":", " ", "Model", " ", "'">> \o model
    \o <<"'", " ", "not found", ".", "\n", "\n", "Available models", ":", " ">>
    \o Join(<<",", " ">>, names)
    \o <<"\n", "\n", "Please update the model name in Settings", ".">>

CannotConnect == <<"Error", ":", " ", "Cannot connect to Ollama", ".", " ", "Is it running", "?">>

\* the timeout answered with the text of the connection failure
TimedOut_as_CannotConnect == CannotConnect

TimedOut == <<"Error", ":", " ", "Ollama request timed out", ".", " ",
              "The model might be loading or the prompt is too long", ".">>

\* TranslationEngine._translate_ollama; env.gen answers the POST to
\* /api/generate and env.tags the GET of /api/tags
translate_ollama(text, target_lang, config, env) ==
    LET url   == Get(config, "ollama_url", <<"http://localhost:11434">>)
        model == Get(config, "ollama_model", <<"gemma">>)
        post  == [api |-> "generate", url |-> url, model |-> model,
                  lang |-> lang_names(target_lang), text |-> text]
        get   == [api |-> "tags", url |-> url]
        gen   == env.gen
        tags  == env.tags
    IN  IF gen.kind = "ConnectionError" THEN [text |-> CannotConnect, calls |-> <<post>>]
        ELSE IF gen.kind = "Timeout" THEN [text |-> TimedOut, calls |-> <<post>>]
        ELSE IF gen.kind = "Exception"
        THEN [text |-> <<"Ollama Error", ":", " ">> \o gen.msg, calls |-> <<post>>]
        ELSE IF gen.status = 200
        THEN IF ~gen.json_ok
             THEN [text |-> <<"Ollama Error", ":", " ", "Expecting value">>, calls |-> <<post>>]
             ELSE [text |-> CleanResponse(Get(gen.json, "response", <<>>)), calls |-> <<post>>]
        ELSE IF gen.status = 404
        THEN IF tags.kind = "response" /\ tags.status = 200 /\ tags.json_ok
             THEN [text |-> ModelNotFoundListed(model, Get(tags.json, "models", <<>>)),
                   calls |-> <<post, get>>]
             ELSE [text |-> <<"Ollama Error", ":", " ", "Model", " ", "'">> \o model
                            \o <<"'", " ", "not found (HTTP 404)", ".", "\n", "\n",
                                 "Please check the model name in Settings or run", ":",
                                 " ", "ollama pull", " ">>
                            \o model,
                   calls |-> <<post, get>>]
        ELSE [text |-> <<"Ollama Error", ":", " ", "HTTP", " ", ToString(gen.status), " ", "-", " ">>
                       \o TakeChars(gen.body, BodyShown),
              calls |-> <<post>>]

\* TranslationEngine._translate_google; env.google answers the hosted API
translate_google(text, target_lang, env) ==
    LET call == [api |-> "google", dest |-> target_lang, text |-> text]
    IN  IF env.google.kind = "raise"
        THEN [text |-> <<"Google Translate Error", ":", " ">> \o env.google.msg,
              calls |-> <<call>>]
        ELSE [text |-> env.google.text, calls |-> <<call>>]

\* translate testing  not text  alone, without  not text.strip()
translate_without_blank_test(text, target_lang, backend, config, env) ==
    IF text = <<>> THEN [text |-> <<>>, calls |-> <<>>]
    ELSE LET lang == IF target_lang # ""
                     THEN target_lang ELSE Get(config, "target_language", "en")
         IN  IF backend = "google" THEN translate_google(text, lang, env)
             ELSE IF backend = "ollama" THEN translate_ollama(text, lang, config, env)
             ELSE [text |-> <<"Unknown backend", ":", " ", backend>>, calls |-> <<>>]

\* TranslationEngine.translate: the returned text and the backend calls made;
\* target_lang is a language code, "" when the caller gives none
translate(text, target_lang, backend, config, env) ==
    IF text = <<>> \/ Strip(text) = <<>> THEN [text |-> <<>>, calls |-> <<>>]
    ELSE LET lang == IF target_lang # ""
                     THEN target_lang ELSE Get(config, "target_language", "en")
         IN  IF backend = "google" THEN translate_google(text, lang, env)
             ELSE IF backend = "ollama" THEN translate_ollama(text, lang, config, env)
             ELSE [text |-> <<"Unknown backend", ":", " ", backend>>, calls |-> <<>>]

-----------------------------------------------------------------------------
(* State *)

VARIABLES
    \* ScreenSelector (src/screen_capture.py)
    sel_visible,        \* the overlay's isVisible()
    is_capturing,       \* self.is_capturing
    begin,              \* self.begin
    end,                \* self.end
    selected_area,      \* self.selected_area: the cropped pixmap, or null
    \* the pointer and the history of the current capture
    button_down,        \* the left button is held since a press the overlay got
    esc_pressed,        \* Escape reached the overlay since start_capture
    drag_done,          \* a release completed a drag since start_capture
    \* MainWindow (src/main.py)
    main_visible,       \* the main window is shown
    capture_btn_enabled,\* self.capture_btn.isEnabled()
    status_label,       \* self.status_label.text(), without its icon
    original_text,      \* self.original_text
    translated_text,    \* self.translated_text
    single_shot_pending,\* QTimer.singleShot(200, self._do_capture) is armed
    check_timer_active, \* self.check_timer is running
    threads,            \* the ProcessingThreads started and not yet reported
    \* the engines MainWindow owns
    ocr_backend,        \* self.ocr_engine.backend
    ocr_language,       \* self.ocr_engine.language
    windows_available,  \* self.ocr_engine.windows_ocr.available
    te_backend,         \* self.translation_engine.backend
    te_aliased,         \* translation_engine.config is config_manager.config
    te_config,          \* the dict translation_engine.config names otherwise
    \* ConfigManager (src/config_manager.py)
    config,             \* self.config_manager.config
    defaults,           \* the dict ConfigManager.DEFAULT_CONFIG names
    config_is_defaults, \* self.config_manager.config is that very dict
    config_file,        \* the content of config.json
    \* SettingsWidget (src/settings_ui.py)
    ui_blocked,         \* the requests.get calls the running UI handler has yet to
                        \* return from, the first of them in progress; 0 when idle
    \* a direct call of TranslationEngine.translate and what it returned
    tr_call,
    \* a direct call of a _clean_ocr_text and what it returned
    clean_call,
    \* a direct call of OCREngine.extract_text and what it returned
    ocr_call,
    \* a direct call of an image preprocessor and the size it returned
    resize_call,
    \* what the widgets of the Settings tab show, when the tab is checked alone
    widgets

selector_vars == <<sel_visible, is_capturing, begin, end, selected_area,
                   button_down, esc_pressed, drag_done>>
window_vars == <<main_visible, capture_btn_enabled, status_label, original_text,
                 translated_text, single_shot_pending, check_timer_active>>
engine_vars == <<ocr_backend, ocr_language, windows_available, te_backend,
                 te_aliased, te_config>>
call_vars == <<tr_call, clean_call, ocr_call, resize_call, widgets>>
config_vars == <<config, defaults, config_is_defaults>>
vars == <<selector_vars, window_vars, engine_vars, threads, config_vars, config_file,
          ui_blocked, call_vars>>

-----------------------------------------------------------------------------
(* Region selector: src/screen_capture.py *)

\* the largest pointer coordinate; the primary screen is MaxCoord + 1 pixels
\* wide and high
MaxCoord == 12

\* pointer coordinates lie within Near pixels of an edge of the screen
Near == 2

\* the size a selection's width and height must exceed
MinSize == 10

QPoint(x, y) == [x |-> x, y |-> y]

\* the positions pointer events carry in the pipeline
DragPoints == {QPoint(0, 0), QPoint(MaxCoord, MaxCoord)}

\* QRect(topLeft, bottomRight): the two corners are stored as given
QRect(p, q) == [x1 |-> p.x, y1 |-> p.y, x2 |-> q.x, y2 |-> q.y]

\* QRect.width() and QRect.height()
Width(r) == r.x2 - r.x1 + 1
Height(r) == r.y2 - r.y1 + 1

\* QRect.normalized() of Qt 6: an axis whose width is negative is swapped, and
\* the swapped corners move inwards by one pixel
\* (r.x1 = x2 + 1; r.x2 = x1 - 1, and the same for y)
Normalized(r) ==
    LET sx == r.x2 < r.x1 - 1
        sy == r.y2 < r.y1 - 1
    IN  [x1 |-> IF sx THEN r.x2 + 1 ELSE r.x1,
         x2 |-> IF sx THEN r.x1 - 1 ELSE r.x2,
         y1 |-> IF sy THEN r.y2 + 1 ELSE r.y1,
         y2 |-> IF sy THEN r.y1 - 1 ELSE r.y2]

\* self.selected_area = None
NoArea == [null |-> TRUE, x |-> 0, y |-> 0, w |-> 0, h |-> 0]

\* self.screenshot.copy(rect): the part of rect inside the screenshot, which
\* covers the primary screen
Copy(rect) ==
    LET x1 == IF rect.x1 >= 0 THEN rect.x1 ELSE 0
        y1 == IF rect.y1 >= 0 THEN rect.y1 ELSE 0
        x2 == IF rect.x2 <= MaxCoord THEN rect.x2 ELSE MaxCoord
        y2 == IF rect.y2 <= MaxCoord THEN rect.y2 ELSE MaxCoord
    IN  [null |-> FALSE, x |-> x1, y |-> y1, w |-> x2 - x1 + 1, h |-> y2 - y1 + 1]

\* the size test with "or" in place of "and"
LargeEnough_either(rect) == Width(rect) > MinSize \/ Height(rect) > MinSize

\* the test of mouseReleaseEvent on the normalized rectangle
LargeEnough(rect) == Width(rect) > MinSize /\ Height(rect) > MinSize

\* start_capture without self.selected_area = None
ScreenSelector_start_capture_keeps_selection ==
    /\ begin' = QPoint(0, 0)
    /\ end' = QPoint(0, 0)
    /\ is_capturing' = FALSE
    /\ selected_area' = selected_area
    /\ sel_visible' = TRUE
    /\ esc_pressed' = FALSE
    /\ drag_done' = FALSE
    /\ UNCHANGED button_down

\* ScreenSelector.start_capture
ScreenSelector_start_capture ==
    /\ begin' = QPoint(0, 0)
    /\ end' = QPoint(0, 0)
    /\ is_capturing' = FALSE
    /\ selected_area' = NoArea
    /\ sel_visible' = TRUE
    /\ esc_pressed' = FALSE
    /\ drag_done' = FALSE
    /\ UNCHANGED button_down

\* ScreenSelector.mousePressEvent; the overlay gets presses while it is shown
mousePressEvent(pos, button) ==
    /\ sel_visible
    /\ IF button = "Left"
       THEN /\ begin' = pos
            /\ end' = pos
            /\ is_capturing' = TRUE
            /\ button_down' = TRUE
       ELSE UNCHANGED <<begin, end, is_capturing, button_down>>
    /\ UNCHANGED <<sel_visible, selected_area, esc_pressed, drag_done>>

\* ScreenSelector.mouseMoveEvent
mouseMoveEvent(pos) ==
    /\ sel_visible
    /\ IF is_capturing THEN end' = pos ELSE UNCHANGED end
    /\ UNCHANGED <<sel_visible, is_capturing, begin, selected_area, button_down,
                   esc_pressed, drag_done>>

\* the body of mouseReleaseEvent once its test has passed
ReleaseCapture(pos) ==
    LET rect == Normalized(QRect(begin, pos))
    IN  /\ is_capturing' = FALSE
        /\ end' = pos
        /\ selected_area' = IF LargeEnough(rect) THEN Copy(rect) ELSE selected_area
        /\ sel_visible' = FALSE
        /\ drag_done' = TRUE

\* ScreenSelector.mouseReleaseEvent; the release of a button pressed on the
\* overlay is delivered whether or not the overlay is still shown
mouseReleaseEvent(pos, button) ==
    /\ sel_visible \/ button_down
    /\ IF button = "Left" /\ is_capturing
       THEN ReleaseCapture(pos)
       ELSE UNCHANGED <<is_capturing, end, selected_area, sel_visible, drag_done>>
    /\ button_down' = IF button = "Left" THEN FALSE ELSE button_down
    /\ UNCHANGED <<begin, esc_pressed>>

\* Escape handled without self.is_capturing = False
CancelCapture_keeps_capturing ==
    /\ is_capturing' = is_capturing
    /\ selected_area' = NoArea
    /\ sel_visible' = FALSE
    /\ esc_pressed' = TRUE

\* the body of keyPressEvent for Escape
CancelCapture ==
    /\ is_capturing' = FALSE
    /\ selected_area' = NoArea
    /\ sel_visible' = FALSE
    /\ esc_pressed' = TRUE

\* ScreenSelector.keyPressEvent
keyPressEvent(key) ==
    /\ sel_visible
    /\ IF key = "Escape"
       THEN CancelCapture
       ELSE UNCHANGED <<is_capturing, selected_area, sel_visible, esc_pressed>>
    /\ UNCHANGED <<begin, end, button_down, drag_done>>

\* ScreenSelector.get_selected_image: the image's size, or null
get_selected_image == selected_area

-----------------------------------------------------------------------------
(* Configuration: src/config_manager.py *)

\* the literal the class body binds ConfigManager.DEFAULT_CONFIG to
DEFAULT_CONFIG ==
    [ocr_backend |-> "windows",
     target_language |-> "en",
     translation_backend |-> "ollama",
     google_api_key |-> <<>>,
     ollama_url |-> <<"http://localhost:11434">>,
     ollama_model |-> <<"llama3">>,
     window_opacity |-> "0.9",
     result_font_size |-> 14]

\* dict.update: the keys of updates override those of d
Update(d, updates) ==
    [k \in DOMAIN d \cup DOMAIN updates |-> IF k \in DOMAIN updates THEN updates[k] ELSE d[k]]

\* A configuration file: absent; one that open() or json.load raises on; a
\* JSON object; a JSON array, with its elements as sequences; any other JSON
\* value (a number, a string with characters in it, true, false, null).
NoFile == [exists |-> FALSE, valid |-> FALSE, kind |-> "", data |-> <<>>, items |-> <<>>]
BadFile == [exists |-> TRUE, valid |-> FALSE, kind |-> "", data |-> <<>>, items |-> <<>>]
JsonFile(data) == [exists |-> TRUE, valid |-> TRUE, kind |-> "object", data |-> data, items |-> <<>>]
JsonArray(items) == [exists |-> TRUE, valid |-> TRUE, kind |-> "array", data |-> <<>>, items |-> items]
RECURSIVE UpdatePairs(_, _)
\* dict.update with an iterable of key/value pairs
UpdatePairs(d, items) ==
    IF items = <<>> THEN d
    ELSE UpdatePairs(Update(d, [k \in {items[1][1]} |-> items[1][2]]), Tail(items))

\* ConfigManager.load_config: config.update(loaded) takes a mapping or an
\* iterable whose elements all have two items, and raises on anything else;
\* whatever is raised is swallowed
load_config(file) ==
    IF ~(file.exists /\ file.valid) THEN defaults
    ELSE CASE file.kind = "object" -> Update(defaults, file.data)
           [] file.kind = "array" /\ \A i \in 1..Len(file.items) : Len(file.items[i]) = 2 ->
                UpdatePairs(defaults, file.items)
           [] OTHER -> defaults

\* the configuration files the program is started with
ConfigFiles ==
    {NoFile, BadFile,
     JsonFile([translation_backend |-> "deepl"]),
     JsonFile([ocr_backend |-> "tesseract", translation_backend |-> "google"])}

\* the backends the translation combo offers
TranslationBackends == {"google", "ollama"}

\* what happens to the file when save_config opens and writes it: the dump is
\* written, open() raises and the file stays as it was, or the write raises
\* after open() truncated the file
WriteOutcomes == {"written", "refused", "truncated"}

\* ConfigManager.save_config after self.config became config'; an exception is
\* printed and swallowed
save_config(w) ==
    config_file' = CASE w = "written" -> JsonFile(config')
                     [] w = "truncated" -> BadFile
                     [] OTHER -> config_file

\* ConfigManager.set(key, value): self.config[key] = value changes the dict
\* self.config names, under every name that dict has
ConfigManager_set(key, value, w) ==
    /\ config' = Update(config, [k \in {key} |-> value])
    /\ defaults' = IF config_is_defaults THEN config' ELSE defaults
    /\ config_is_defaults' = config_is_defaults
    /\ save_config(w)

\* ConfigManager.update(updates): self.config.update changes the dict in place
ConfigManager_update(updates, w) ==
    /\ config' = Update(config, updates)
    /\ defaults' = IF config_is_defaults THEN config' ELSE defaults
    /\ config_is_defaults' = config_is_defaults
    /\ save_config(w)

\* a get_defaults that hands out the class-level dict itself
get_defaults_without_copy == [dict |-> defaults, same |-> TRUE]

\* ConfigManager.get_defaults: DEFAULT_CONFIG.copy() is a new dict with the
\* content of the class-level one
get_defaults == [dict |-> defaults, same |-> FALSE]

\* the dict translation_engine.config names
TeConfig == IF te_aliased THEN config ELSE te_config

-----------------------------------------------------------------------------
(* Answers of the recognizers and of the translation backends in a run *)

Hi == <<"H", "i">>

AllFive(o) == <<o, o, o, o, o>>

\* answers of pytesseract.image_to_string
TesseractAnswers == {Recognized(Hi), Recognized(<<>>), Raised(<<"tesseract failed">>)}

OcrEnvs ==
    {[tess |-> t, win |-> AllFive(Recognized(<<>>)), req |-> Recognized(<<>>)] :
        t \in TesseractAnswers}
    \cup {[tess |-> Recognized(<<>>), win |-> w, req |-> Recognized(<<>>)] :
        \* answers of winocr.recognize_pil for the five candidate tags
        w \in {AllFive(Recognized(<<>>)),
               AllFive(Raised(<<"image too large">>)),
               AllFive(Raised(<<"language", " ", "pack missing">>)),
               <<Raised(<<"image too large">>), Recognized(Hi \o <<"!">>), Recognized(<<>>),
                 Recognized(<<>>), Recognized(<<>>)>>}}

\* answers of the hosted translation API
GoogleAnswers == {Recognized(<<"Salut">>), Raised(<<"service unavailable">>)}

TrEnvs ==
    {[google |-> g, gen |-> HttpTimeout, tags |-> HttpConnectionError] : g \in GoogleAnswers}
    \cup {[google |-> Recognized(<<"Salut">>), gen |-> x, tags |-> t] :
            \* answers of POST /api/generate
            x \in {HttpResponse(200, TRUE, [response |-> <<" ", "\"", "Salut", "\"">>], <<>>),
                   HttpResponse(200, FALSE, <<>>, <<"not json">>),
                   HttpResponse(404, FALSE, <<>>, <<"model not found">>),
                   HttpResponse(500, FALSE, <<>>, <<"internal error">>),
                   HttpConnectionError, HttpTimeout, [kind |-> "Exception", msg |-> <<"invalid url">>]},
            \* answers of GET /api/tags
            t \in {HttpResponse(200, TRUE, [models |-> << <<"gemma">>, <<"mistral">> >>], <<>>),
                   HttpResponse(200, TRUE, [models |-> <<>>], <<>>),
                   HttpResponse(200, FALSE, <<>>, <<"not json">>),
                   HttpResponse(503, FALSE, <<>>, <<>>),
                   HttpConnectionError}}

FewTrEnvs ==
    {[google |-> Recognized(<<"Salut">>), gen |-> HttpTimeout, tags |-> HttpConnectionError]}

-----------------------------------------------------------------------------
(* Pipeline orchestrator: src/main.py *)

\* the most ProcessingThreads the model lets exist at once
MaxThreads == 2

\* the user can click what the shown main window offers
CanClick == main_visible

\* start_capture without capture_btn.setEnabled(False)
start_capture_leaves_button_enabled ==
    /\ status_label' = "Select screen area..."
    /\ capture_btn_enabled' = capture_btn_enabled
    /\ main_visible' = FALSE
    /\ single_shot_pending' = TRUE
    /\ UNCHANGED <<original_text, translated_text, check_timer_active>>

\* MainWindow.start_capture, the slot of capture_btn.clicked
start_capture ==
    /\ status_label' = "Select screen area..."
    /\ capture_btn_enabled' = FALSE
    /\ main_visible' = FALSE
    /\ single_shot_pending' = TRUE
    /\ UNCHANGED <<original_text, translated_text, check_timer_active>>

\* a click on the capture button: a disabled button emits no clicked signal
ClickCapture ==
    /\ CanClick
    /\ capture_btn_enabled
    /\ start_capture
    /\ UNCHANGED <<selector_vars, engine_vars, threads, config_vars, call_vars, ui_blocked, config_file>>

\* MainWindow._do_capture, run by the single-shot timer
DoCapture ==
    /\ single_shot_pending
    /\ single_shot_pending' = FALSE
    /\ ScreenSelector_start_capture
    /\ check_timer_active' = TRUE
    /\ UNCHANGED <<main_visible, capture_btn_enabled, status_label, original_text,
                   translated_text, engine_vars, threads, config_vars, call_vars, ui_blocked, config_file>>

\* MainWindow.process_image
process_image ==
    /\ status_label' = "Processing..."
    /\ ocr_backend' = Get(config, "ocr_backend", "tesseract")
    /\ ocr_language' = None
    /\ te_aliased' = TRUE
    /\ te_config' = DEFAULT_CONFIG
    /\ te_backend' = Get(config, "translation_backend", "ollama")
    \* ProcessingThread.__init__ followed by start()
    /\ threads' = Append(threads,
                         [pc |-> "extract", target_lang |-> Get(config, "target_language", "en"),
                          original |-> <<>>, translated |-> <<>>, status |-> "",
                          tr_invoked |-> FALSE, calls |-> <<>>,
                          ocr_raised |-> FALSE, ocr_nothing |-> FALSE])
    /\ UNCHANGED <<capture_btn_enabled, windows_available>>

\* the branch for no image without capture_btn.setEnabled(True)
capture_cancelled_keeps_disabled ==
    /\ status_label' = "Capture cancelled"
    /\ capture_btn_enabled' = capture_btn_enabled
    /\ UNCHANGED <<engine_vars, threads>>

\* the branch of check_capture_complete for no image
capture_cancelled ==
    /\ status_label' = "Capture cancelled"
    /\ capture_btn_enabled' = TRUE
    /\ UNCHANGED <<engine_vars, threads>>

\* MainWindow.check_capture_complete, run by check_timer every 100 ms; while
\* the overlay is visible it does nothing
CheckCaptureComplete ==
    /\ check_timer_active
    /\ ~sel_visible
    /\ get_selected_image.null \/ Len(threads) < MaxThreads
    /\ check_timer_active' = FALSE
    /\ main_visible' = TRUE
    /\ IF ~get_selected_image.null THEN process_image ELSE capture_cancelled
    /\ UNCHANGED <<selector_vars, original_text, translated_text, single_shot_pending,
                   config_vars, call_vars, ui_blocked, config_file>>

\* the test of ProcessingThread.run on the extracted text
OcrFailed(text) == text = <<>> \/ StartsWith(text, <<"OCR Error">>)

\* the recognition of the run raised out of the backend's recognizer calls
RecognitionRaised(backend, available, language, env) ==
    IF backend = "windows"
    THEN available /\ do_ocr(env.win, env.req, WinLang(language)).res.kind = "raise"
    ELSE env.tess.kind = "raise"

\* the recognizer answered every request made of it with no text
RecognizedNothing(backend, available, language, env) ==
    IF backend = "windows"
    THEN /\ available
         /\ \A i \in 1..Len(env.win) : env.win[i] = Recognized(<<>>)
         /\ WinLang(language) \notin {"auto", "en"} => env.req = Recognized(<<>>)
    ELSE env.tess = Recognized(<<>>)

\* ProcessingThread.run up to the test of the extracted text
RunExtract(t, env) ==
    LET r == OCREngine_extract_text(ocr_backend, windows_available, ocr_language, env)
        u == [t EXCEPT !.original = r.text,
                       !.ocr_raised = RecognitionRaised(ocr_backend, windows_available,
                                                        ocr_language, env),
                       !.ocr_nothing = RecognizedNothing(ocr_backend, windows_available,
                                                         ocr_language, env)]
    IN  IF OcrFailed(r.text)
        THEN [u EXCEPT !.pc = "emitted", !.translated = <<>>, !.status = "OCR failed"]
        ELSE [u EXCEPT !.pc = "translate"]

\* run reporting a failure when the translator returns one of its error strings
RunTranslate_flags_errors(t, env) ==
    LET r == translate(t.original, t.target_lang, te_backend, TeConfig, env)
        bad == \/ StartsWith(r.text, <<"Error">>)
               \/ StartsWith(r.text, <<"Ollama Error">>)
               \/ StartsWith(r.text, <<"Unknown backend">>)
    IN  [t EXCEPT !.pc = "emitted", !.translated = r.text,
                  !.status = IF bad THEN "Translation failed" ELSE "Completed",
                  !.tr_invoked = TRUE, !.calls = r.calls]

\* run handing the translator the text stripped of its punctuation marks
RunTranslate_other_text(t, env) ==
    LET r == translate(RemoveChars(t.original, PunctChars), t.target_lang, te_backend,
                       TeConfig, env)
    IN  [t EXCEPT !.pc = "emitted", !.translated = r.text, !.status = "Completed",
                  !.tr_invoked = TRUE, !.calls = r.calls]

\* ProcessingThread.run from the call of translate to the emitted signal
RunTranslate(t, env) ==
    LET r == translate(t.original, t.target_lang, te_backend, TeConfig, env)
    IN  [t EXCEPT !.pc = "emitted", !.translated = r.text, !.status = "Completed",
                  !.tr_invoked = TRUE, !.calls = r.calls]

\* a step of the worker thread i
ThreadExtract(i, ocrEnvs) ==
    /\ threads[i].pc = "extract"
    /\ \E env \in ocrEnvs : threads' = [threads EXCEPT ![i] = RunExtract(threads[i], env)]
    /\ UNCHANGED <<selector_vars, window_vars, engine_vars, config_vars, call_vars, ui_blocked, config_file>>

ThreadTranslate(i, trEnvs) ==
    /\ threads[i].pc = "translate"
    /\ \E env \in trEnvs : threads' = [threads EXCEPT ![i] = RunTranslate(threads[i], env)]
    /\ UNCHANGED <<selector_vars, window_vars, engine_vars, config_vars, call_vars, ui_blocked, config_file>>

\* the status line on_processing_complete shows
CompletionLabel(status) ==
    IF status = "Completed" THEN "Translation completed!" ELSE status

\* on_processing_complete without capture_btn.setEnabled(True)
on_processing_complete_keeps_disabled(original, translated, status) ==
    /\ original_text' = original
    /\ translated_text' = translated
    /\ status_label' = CompletionLabel(status)
    /\ capture_btn_enabled' = capture_btn_enabled

\* on_processing_complete leaving the translation on display after a failure
on_processing_complete_keeps_translation(original, translated, status) ==
    /\ original_text' = original
    /\ translated_text' = IF status = "Completed" THEN translated ELSE translated_text
    /\ status_label' = CompletionLabel(status)
    /\ capture_btn_enabled' = TRUE

\* MainWindow.on_processing_complete
on_processing_complete(original, translated, status) ==
    /\ original_text' = original
    /\ translated_text' = translated
    /\ status_label' = CompletionLabel(status)
    /\ capture_btn_enabled' = TRUE

\* the finished signal of thread i reaches the main thread
OnProcessingComplete(i) ==
    /\ threads[i].pc = "emitted"
    /\ on_processing_complete(threads[i].original, threads[i].translated, threads[i].status)
    /\ threads' = SubSeq(threads, 1, i - 1) \o SubSeq(threads, i + 1, Len(threads))
    /\ UNCHANGED <<selector_vars, main_visible, single_shot_pending, check_timer_active,
                   engine_vars, config_vars, call_vars, ui_blocked, config_file>>

\* MainWindow.copy_translation
CopyTranslation ==
    /\ CanClick
    /\ status_label' = IF translated_text # <<>> THEN "Translation copied to clipboard!"
                       ELSE "No translation to copy"
    /\ UNCHANGED <<selector_vars, main_visible, capture_btn_enabled, original_text,
                   translated_text, single_shot_pending, check_timer_active,
                   engine_vars, threads, config_vars, call_vars, ui_blocked, config_file>>

\* MainWindow.copy_original
CopyOriginal ==
    /\ CanClick
    /\ status_label' = IF original_text # <<>> THEN "Original text copied to clipboard!"
                       ELSE "No text to copy"
    /\ UNCHANGED <<selector_vars, main_visible, capture_btn_enabled, original_text,
                   translated_text, single_shot_pending, check_timer_active,
                   engine_vars, threads, config_vars, call_vars, ui_blocked, config_file>>

\* MainWindow.clear_results
ClearResults ==
    /\ CanClick
    /\ original_text' = <<>>
    /\ translated_text' = <<>>
    /\ status_label' = "Ready to capture"
    /\ UNCHANGED <<selector_vars, main_visible, capture_btn_enabled,
                   single_shot_pending, check_timer_active,
                   engine_vars, threads, config_vars, call_vars, ui_blocked, config_file>>

-----------------------------------------------------------------------------
(* Settings surface: src/settings_ui.py *)

\* SettingsWidget.save_settings with the values the widgets hold
save_settings(ocr, lang, backend, model, w) ==
    ConfigManager_update([ocr_backend |-> ocr,
                          target_language |-> lang,
                          translation_backend |-> backend,
                          ollama_url |-> config.ollama_url,
                          ollama_model |-> model,
                          result_font_size |-> config.result_font_size], w)

\* a click on Save Settings; the dict is updated in place, so an engine that
\* shares it sees the change
SaveSettings(writes) ==
    /\ CanClick
    /\ \E ocr \in {"tesseract", "windows"}, lang \in {"fr"}, backend \in TranslationBackends,
          model \in {<<"gemma">>}, w \in writes : save_settings(ocr, lang, backend, model, w)
    /\ UNCHANGED <<selector_vars, window_vars, engine_vars, threads, call_vars, ui_blocked>>

\* SettingsWidget.reset_settings answered Yes: config_manager.config becomes a
\* new dict, and the engine keeps the dict it was given.  Only translate reads
\* the engine's dict, and process_image replaces it before the next run: when
\* no run has translate ahead, its content is dead and is not recorded.
\* It goes on into load_settings, which calls refresh_ollama_models once
\* itself and once through on_backend_changed, the defaults selecting Ollama,
\* and a third time when setCurrentText moves the combo from Google to Ollama.
reset_settings(w) ==
    /\ config' = get_defaults.dict
    /\ config_is_defaults' = get_defaults.same
    /\ defaults' = defaults
    /\ save_config(w)
    /\ te_aliased' = FALSE
    /\ te_config' = IF \E i \in 1..Len(threads) : threads[i].pc \in {"extract", "translate"}
                     THEN TeConfig ELSE DEFAULT_CONFIG
    /\ \E shown \in TranslationBackends :
         ui_blocked' = IF shown = "google" THEN 3 ELSE 2

ResetSettings(writes) ==
    /\ CanClick
    /\ \E w \in writes : reset_settings(w)
    /\ UNCHANGED <<selector_vars, window_vars, ocr_backend, ocr_language,
                   windows_available, te_backend, threads, call_vars>>

\* SettingsWidget.refresh_ollama_models up to its requests.get, which the
\* handler makes itself, on the thread that runs the handler
refresh_ollama_models == ui_blocked' = 1

\* a click on the refresh button of the Ollama card
RefreshClick ==
    /\ CanClick
    /\ refresh_ollama_models
    /\ UNCHANGED <<selector_vars, window_vars, engine_vars, threads, config_vars, config_file,
                   call_vars>>

\* SettingsWidget.on_backend_changed for the backend the user picked in the combo
on_backend_changed(backend) ==
    IF backend = "ollama" THEN refresh_ollama_models ELSE UNCHANGED ui_blocked

BackendChanged ==
    /\ CanClick
    /\ \E backend \in TranslationBackends : on_backend_changed(backend)
    /\ UNCHANGED <<selector_vars, window_vars, engine_vars, threads, config_vars, config_file,
                   call_vars>>

\* the requests.get in progress returns or raises (after 5 s at the latest), and
\* the handler goes on to its next request or ends
RefreshReturns ==
    /\ ui_blocked > 0
    /\ ui_blocked' = ui_blocked - 1
    /\ UNCHANGED <<selector_vars, window_vars, engine_vars, threads, config_vars, config_file,
                   call_vars>>

\* the answers of GET /api/tags to refresh_ollama_models
ModelLists ==
    {HttpResponse(200, TRUE, [models |-> << <<"gemma">>, <<"llama3">> >>], <<>>),
     HttpResponse(200, TRUE, [models |-> <<>>], <<>>),
     HttpConnectionError}

\* lang_map.get(code, English) of load_settings: the text of the target
\* language combo for a code; the flag of each item is written as its two
\* regional-indicator letters
lang_map(code) ==
    CASE code = "vi" -> "VN Vietnamese" [] code = "ja" -> "JP Japanese"
      [] code = "ko" -> "KR Korean"     [] code = "zh" -> "CN Chinese"
      [] code = "es" -> "ES Spanish"    [] code = "fr" -> "FR French"
      [] code = "de" -> "DE German"     [] code = "ru" -> "RU Russian"
      [] code = "pt" -> "PT Portuguese" [] code = "it" -> "IT Italian"
      [] code = "th" -> "TH Thai"       [] OTHER -> "GB English"

\* lang_reverse_map.get(text, 'en') of save_settings
lang_reverse_map(text) ==
    CASE text = "VN Vietnamese" -> "vi" [] text = "JP Japanese" -> "ja"
      [] text = "KR Korean" -> "ko"     [] text = "CN Chinese" -> "zh"
      [] text = "ES Spanish" -> "es"    [] text = "FR French" -> "fr"
      [] text = "DE German" -> "de"     [] text = "RU Russian" -> "ru"
      [] text = "PT Portuguese" -> "pt" [] text = "IT Italian" -> "it"
      [] text = "TH Thai" -> "th"       [] OTHER -> "en"

\* SettingsWidget.refresh_ollama_models on the model combo, response being what
\* requests.get returned or raised.  The combo is editable and has a
\* placeholder text: clear() removes the items, and empties the edit text when
\* an item was the current one; addItems makes no item current; setCurrentIndex
\* shows the item's text and setCurrentText sets the edit text alone.
\* idx is the position of the current item, 0 for none.
refresh_model_combo(combo, response) ==
    LET current == combo.text
        cleared == [items |-> <<>>, idx |-> 0,
                    text |-> IF combo.idx # 0 THEN <<>> ELSE combo.text]
        names == IF response.kind = "response" /\ response.status = 200 /\ response.json_ok
                 THEN Get(response.json, "models", <<>>)
                 ELSE <<>>
        found == {i \in 1..Len(names) : names[i] = current}
    IN  IF names = <<>> THEN cleared
        ELSE IF current = <<>> THEN [cleared EXCEPT !.items = names]
        ELSE IF found # {}
        THEN [items |-> names, idx |-> CHOOSE i \in found : \A j \in found : i <= j,
              text |-> current]
        ELSE [items |-> names, idx |-> 0, text |-> current]

\* SettingsWidget.load_settings on the widgets w for the configuration cfg.
\* r0 answers the request on_backend_changed makes when setCurrentText changes
\* the backend combo to Ollama, r1 the one load_settings makes itself, r2 the
\* one of its closing call of on_backend_changed.
load_settings(w, cfg, r0, r1, r2) ==
    LET backend == IF Get(cfg, "translation_backend", "ollama") = "google"
                   THEN "Google Translate" ELSE "Ollama (Offline)"
        c0 == IF backend # w.backend /\ backend = "Ollama (Offline)"
              THEN refresh_model_combo(w.model, r0) ELSE w.model
        c1 == refresh_model_combo(c0, r1)
        c2 == [c1 EXCEPT !.text = Get(cfg, "ollama_model", <<"llama3">>)]
    IN  [ocr |-> IF Get(cfg, "ocr_backend", "tesseract") = "windows"
                 THEN "Windows OCR" ELSE "Tesseract",
         lang |-> lang_map(Get(cfg, "target_language", "en")),
         backend |-> backend,
         model |-> IF backend = "Ollama (Offline)" THEN refresh_model_combo(c2, r2) ELSE c2]

-----------------------------------------------------------------------------
(* The program *)

NoCall == [done |-> FALSE, text |-> <<>>, target_lang |-> "", backend |-> "",
           config |-> DEFAULT_CONFIG, gen |-> HttpTimeout, tags |-> HttpTimeout,
           result |-> <<>>, calls |-> <<>>]

NoClean == [done |-> FALSE, cleaner |-> "", text |-> <<>>, once |-> <<>>, twice |-> <<>>]

NoOcr == [done |-> FALSE, backend |-> "", available |-> FALSE, language |-> None,
          env |-> <<>>, res |-> <<>>, text |-> <<>>, calls |-> <<>>]

NoResize == [done |-> FALSE, path |-> "", width |-> 0, height |-> 0,
             new_width |-> 0, new_height |-> 0]

\* no direct call is under way, but for those named in made
NoCalls(made) ==
    /\ IF "tr_call" \in made THEN TRUE ELSE tr_call = NoCall
    /\ IF "clean_call" \in made THEN TRUE ELSE clean_call = NoClean
    /\ IF "ocr_call" \in made THEN TRUE ELSE ocr_call = NoOcr
    /\ IF "resize_call" \in made THEN TRUE ELSE resize_call = NoResize
    /\ IF "widgets" \in made THEN TRUE ELSE widgets = [ocr |-> "", lang |-> "", backend |-> "", model |-> <<>>]

\* MainWindow.__init__ and ScreenSelector.__init__
InitSelector ==
    /\ sel_visible = FALSE
    /\ is_capturing = FALSE
    /\ begin = QPoint(0, 0)
    /\ end = QPoint(0, 0)
    /\ selected_area = NoArea
    /\ button_down = FALSE
    /\ esc_pressed = FALSE
    /\ drag_done = FALSE

InitWindow ==
    /\ main_visible = TRUE
    /\ capture_btn_enabled = TRUE
    /\ status_label = "Ready to capture"
    /\ original_text = <<>>
    /\ translated_text = <<>>
    /\ single_shot_pending = FALSE
    /\ check_timer_active = FALSE
    /\ threads = <<>>

InitEngines ==
    /\ ocr_backend = Get(config, "ocr_backend", "tesseract")
    /\ ocr_language = None
    /\ te_backend = Get(config, "translation_backend", "ollama")
    /\ te_aliased = TRUE
    /\ te_config = DEFAULT_CONFIG

\* the UI thread runs no handler
UiIdle == ui_blocked = 0

Init ==
    /\ config_file \in ConfigFiles
    /\ defaults = DEFAULT_CONFIG
    /\ config = load_config(config_file)
    /\ config_is_defaults = FALSE
    /\ ui_blocked = 0
    /\ windows_available \in BOOLEAN
    /\ InitSelector
    /\ InitWindow
    /\ InitEngines
    /\ NoCalls({})

\* pointer and key events on the overlay
SelectorEvent(points) ==
    /\ \/ \E p \in points, b \in {"Left", "Right"} : mousePressEvent(p, b)
       \/ \E p \in points : mouseMoveEvent(p)
       \/ \E p \in points, b \in {"Left", "Right"} : mouseReleaseEvent(p, b)
       \/ \E k \in {"Escape", "Space"} : keyPressEvent(k)
    /\ UNCHANGED <<window_vars, engine_vars, threads, config_vars, call_vars, ui_blocked, config_file>>

\* the steps of the program, the recognizers answering from ocrEnvs and the
\* translation backends from trEnvs
\* Handlers run on the UI thread one at a time, and none starts while one is
\* inside a blocking call; the worker threads run meanwhile.  The writes of
\* config.json end as one of writes.
PipelineNext(ocrEnvs, trEnvs, writes) ==
    \/ UiIdle /\ ClickCapture
    \/ UiIdle /\ DoCapture
    \/ UiIdle /\ SelectorEvent(DragPoints)
    \/ UiIdle /\ CheckCaptureComplete
    \/ \E i \in 1..Len(threads) : ThreadExtract(i, ocrEnvs)
    \/ \E i \in 1..Len(threads) : ThreadTranslate(i, trEnvs)
    \/ \E i \in 1..Len(threads) : UiIdle /\ OnProcessingComplete(i)
    \/ UiIdle /\ CopyTranslation
    \/ UiIdle /\ CopyOriginal
    \/ UiIdle /\ ClearResults
    \/ UiIdle /\ SaveSettings(writes)
    \/ UiIdle /\ ResetSettings(writes)
    \/ UiIdle /\ RefreshClick
    \/ UiIdle /\ BackendChanged
    \/ RefreshReturns

\* the writes of config.json drawn where the file is not the subject of the check
FewWrites == {"written"}

Next == PipelineNext(OcrEnvs, FewTrEnvs, FewWrites)

Spec == Init /\ [][Next]_vars

\* What the code's scheduling gives.  The Qt event loop delivers every timer
\* event and every queued signal: the two timers run while the main window is
\* hidden and no other handler can start, and the finished signal is delivered
\* however often the user starts other handlers meanwhile.  A started QThread
\* runs on, each backend call returning or raising (extract_text is never
\* held forever), and a requests.get with a timeout returns.  The user ends
\* the selection.
Fairness ==
    \* the step the UI thread has to take for a capture, no two of them
    \* enabled together; the user ends the selection by an event on the
    \* overlay that hides it
    /\ WF_vars(\/ RefreshReturns
               \/ UiIdle /\ \/ DoCapture
                            \/ SelectorEvent(DragPoints) /\ ~sel_visible'
                            \/ CheckCaptureComplete)
    /\ []<>(\A i \in 1..Len(threads) : threads[i].pc # "extract")
    \* a worker thread returns from translate and emits its signal
    /\ WF_vars(\E i \in 1..Len(threads) : ThreadTranslate(i, FewTrEnvs))
    \* the delivery of a finished signal to its slot
    /\ SF_vars(\E i \in 1..Len(threads) : UiIdle /\ OnProcessingComplete(i))

\* the capture pipeline and the handlers that change what a run does or hold
\* the UI thread up
NextLive ==
    \/ UiIdle /\ ClickCapture
    \/ UiIdle /\ DoCapture
    \/ UiIdle /\ SelectorEvent(DragPoints)
    \/ UiIdle /\ CheckCaptureComplete
    \/ \E i \in 1..Len(threads) : ThreadExtract(i, OcrEnvs)
    \/ \E i \in 1..Len(threads) : ThreadTranslate(i, FewTrEnvs)
    \/ \E i \in 1..Len(threads) : UiIdle /\ OnProcessingComplete(i)
    \/ UiIdle /\ SaveSettings(FewWrites)
    \/ UiIdle /\ RefreshClick
    \/ RefreshReturns

InitLive == Init /\ config_file = NoFile /\ windows_available

SpecLive == InitLive /\ [][NextLive]_vars /\ Fairness

\* the pipeline with every kind of answer of the translation backends
NextTr ==
    PipelineNext({[tess |-> Recognized(Hi), win |-> AllFive(Recognized(Hi \o <<"!">>)),
                   req |-> Recognized(<<>>)]},
                 \* one of each kind of outcome translate tells apart
                 {[google |-> g, gen |-> HttpTimeout, tags |-> HttpConnectionError] :
                    g \in GoogleAnswers}
                 \cup {[google |-> Recognized(<<"Salut">>), gen |-> x, tags |-> t] :
                         x \in {HttpResponse(200, TRUE,
                                              [response |-> <<" ", "\"", "Salut", "\"">>], <<>>),
                                HttpResponse(404, FALSE, <<>>, <<"model not found">>),
                                HttpResponse(500, FALSE, <<>>, <<"internal error">>),
                                HttpConnectionError, HttpTimeout},
                         t \in {HttpResponse(200, TRUE,
                                              [models |-> << <<"gemma">>, <<"mistral">> >>], <<>>),
                                HttpConnectionError}},
                 FewWrites)

SpecTr == Init /\ [][NextTr]_vars

-----------------------------------------------------------------------------
(* The region selector alone, driven through its contract *)

\* the owner calls start_capture while the overlay is hidden, as _do_capture does
SelStartCapture ==
    /\ ~sel_visible
    /\ ScreenSelector_start_capture
    /\ UNCHANGED <<window_vars, engine_vars, threads, config_vars, call_vars, ui_blocked, config_file>>

NextSelector ==
    \/ SelStartCapture
    \* the positions pointer events carry: those near the edges of the screen
    \/ SelectorEvent(LET Coords == (0..Near) \cup ((MaxCoord - Near)..MaxCoord)
                     IN  {QPoint(x, y) : x \in Coords, y \in Coords})

\* the program started on Windows with winocr installed and no configuration file
InitAlone ==
    /\ config_file = NoFile
    /\ defaults = DEFAULT_CONFIG
    /\ config = load_config(config_file)
    /\ config_is_defaults = FALSE
    /\ ui_blocked = 0
    /\ windows_available = TRUE
    /\ InitSelector
    /\ InitWindow
    /\ InitEngines

SpecSelector == InitLive /\ [][NextSelector]_vars

-----------------------------------------------------------------------------
(* The translator alone: one direct call of translate *)

\* the longest text given to a direct call
MaxLen == 2

InitTranslate ==
    /\ InitAlone
    /\ NoCalls({"tr_call"})
    /\ \E text \in UNION {[1..n -> {" ", "\n", "a"}] : n \in 0..MaxLen},
          lang \in {"", "fr"}, backend \in {"google", "ollama", "deepl"},
          model \in {<<"llama3">>, <<"gemma", ":", "2", "b">>} :
         tr_call = [NoCall EXCEPT !.text = text, !.target_lang = lang,
                                  !.backend = backend,
                                  !.config = Update(DEFAULT_CONFIG, [ollama_model |-> model])]

\* translate(text, target_lang) on an engine with the call's backend and config
TranslateCall ==
    /\ ~tr_call.done
    /\ \E env \in TrEnvs :
         LET r == translate(tr_call.text, tr_call.target_lang, tr_call.backend,
                            tr_call.config, env)
         IN  tr_call' = [tr_call EXCEPT !.done = TRUE, !.gen = env.gen, !.tags = env.tags,
                                        !.result = r.text, !.calls = r.calls]
    /\ UNCHANGED <<selector_vars, window_vars, engine_vars, threads, config_vars,
                 ui_blocked, config_file, clean_call, ocr_call, resize_call, widgets>>

SpecTranslate == InitTranslate /\ [][TranslateCall]_vars

-----------------------------------------------------------------------------
(* The local-model backend alone, over the texts a 200 response can carry *)

MaxBody == 4

InitResponse ==
    /\ InitAlone
    /\ NoCalls({"tr_call"})
    \* result['response'] of the 200 answers drawn: a response opens with the
    \* label, in either case, or with none
    /\ \E r \in {l \o b : l \in {<<>>, TranslationLabel,
                                  <<"T", "r", "a", "n", "s", "l", "a", "t", "i", "o", "n", ":">>},
                           b \in UNION {[1..n -> {" ", "\"", "'", "a"}] : n \in 0..MaxBody}} :
         tr_call = [NoCall EXCEPT !.text = <<"a">>, !.target_lang = "fr",
                                  !.backend = "ollama",
                                  !.gen = HttpResponse(200, TRUE, [response |-> r], <<>>),
                                  !.tags = HttpConnectionError]

\* translate(text, target_lang) answered by the response the call record holds
GenerateCall ==
    /\ ~tr_call.done
    /\ LET env == [google |-> Recognized(<<>>), gen |-> tr_call.gen, tags |-> tr_call.tags]
           r == translate(tr_call.text, tr_call.target_lang, tr_call.backend,
                          tr_call.config, env)
       IN  tr_call' = [tr_call EXCEPT !.done = TRUE, !.result = r.text, !.calls = r.calls]
    /\ UNCHANGED <<selector_vars, window_vars, engine_vars, threads, config_vars,
                 ui_blocked, config_file, clean_call, ocr_call, resize_call, widgets>>

SpecResponse == InitResponse /\ [][GenerateCall]_vars

-----------------------------------------------------------------------------
(* The two cleaners alone: one direct call of _clean_ocr_text, then a second
   call on what the first returned *)

\* the longest text given to a cleaner
MaxText == 6

\* _clean_ocr_text of the named class
clean(cleaner, text) ==
    IF cleaner = "WindowsOCR" THEN WindowsOCR_clean_ocr_text(text)
    ELSE OCREngine_clean_ocr_text(text)

InitClean ==
    /\ InitAlone
    /\ NoCalls({"clean_call"})
    \* the texts given to a cleaner: blanks, line ends, a punctuation mark that
    \* collapses, a word character, a shape only the Windows cleaner removes and
    \* a box glyph both remove
    /\ \E cleaner \in {"WindowsOCR", "OCREngine"},
          text \in UNION {[1..n -> {" ", "\n", "!", "a", "u25cf"}] : n \in 0..MaxText}
                     \cup {<<"!", "!", "u2502", "!", "a">>, <<"a", " ", "u2502", " ", " ", "a">>} :
         clean_call = [NoClean EXCEPT !.cleaner = cleaner, !.text = text]

CleanCall ==
    /\ ~clean_call.done
    /\ LET once == clean(clean_call.cleaner, clean_call.text)
       IN  clean_call' = [clean_call EXCEPT !.done = TRUE, !.once = once,
                                            !.twice = clean(clean_call.cleaner, once)]
    /\ UNCHANGED <<selector_vars, window_vars, engine_vars, threads, config_vars,
                 ui_blocked, config_file, tr_call, ocr_call, resize_call, widgets>>

SpecClean == InitClean /\ [][CleanCall]_vars

-----------------------------------------------------------------------------
(* The text extractor alone: one direct call of OCREngine.extract_text *)

\* the engine is given its backend, its language (None is auto-detection) and
\* the availability flag WindowsOCR.__init__ computed
InitOcr ==
    /\ InitAlone
    /\ NoCalls({"ocr_call"})
    \* what recognize_pil answers for one tag: no text, a text that scores 3, two
    \* texts that score 6, and two exceptions
    /\ \/ \E win \in [1..Len(common_langs) ->
                        {Recognized(<<>>), Recognized(<<"a">>), Recognized(Hi),
                         Recognized(<<"a", "!", "!", "!">>), Raised(<<"image too large">>),
                         Raised(<<"language", " ", "pack missing">>)}],
             language \in {None, "en", "ja"},
             req \in {Recognized(<<"a">>), Raised(<<"image too large">>)} :
            ocr_call = [NoOcr EXCEPT !.backend = "windows", !.available = TRUE,
                                     !.language = language,
                                     !.env = [tess |-> Recognized(<<>>), win |-> win,
                                              req |-> req]]
       \/ \E backend \in {"windows", "tesseract"}, available \in BOOLEAN,
             tess \in TesseractAnswers, language \in {None, "ja"} :
            ocr_call = [NoOcr EXCEPT !.backend = backend, !.available = available,
                                     !.language = language,
                                     !.env = [tess |-> tess, win |-> AllFive(Recognized(Hi)),
                                              req |-> Recognized(Hi)]]

\* extract_text(image) on an engine with the call's backend, language and
\* availability flag; res is what do_ocr returned or raised when it ran
OcrCall ==
    /\ ~ocr_call.done
    /\ LET c == ocr_call
           r == OCREngine_extract_text(c.backend, c.available, c.language, c.env)
       IN  ocr_call' = [c EXCEPT !.done = TRUE, !.text = r.text, !.calls = r.calls,
                                 !.res = IF c.backend = "windows" /\ c.available
                                         THEN do_ocr(c.env.win, c.env.req,
                                                     WinLang(c.language)).res
                                         ELSE <<>>]
    /\ UNCHANGED <<selector_vars, window_vars, engine_vars, threads, config_vars,
                 ui_blocked, config_file, tr_call, clean_call, resize_call, widgets>>

SpecOcr == InitOcr /\ [][OcrCall]_vars

-----------------------------------------------------------------------------
(* The preprocessors alone: one direct call on an image of a given size *)

\* the widths and heights of the images given: the smallest a selection can
\* have, sizes around both minimums, and sizes at and over the largest dimension
InitResize ==
    /\ InitAlone
    /\ NoCalls({"resize_call"})
    /\ \E path \in {"default", "windows"},
          w, h \in {MinSize + 1, 281, 599, 600, 700, 799, 800, 1000, 1600, 4000, 4001} :
         resize_call = [NoResize EXCEPT !.path = path, !.width = w, !.height = h]

ResizeCall ==
    /\ ~resize_call.done
    /\ \E s \in IF resize_call.path = "windows"
                 THEN preprocess_for_windows_ocr(resize_call.width, resize_call.height)
                 ELSE preprocess_image(resize_call.width, resize_call.height) :
         resize_call' = [resize_call EXCEPT !.done = TRUE, !.new_width = s[1],
                                            !.new_height = s[2]]
    /\ UNCHANGED <<selector_vars, window_vars, engine_vars, threads, config_vars,
                 ui_blocked, config_file, tr_call, clean_call, ocr_call, widgets>>

SpecResize == InitResize /\ [][ResizeCall]_vars

-----------------------------------------------------------------------------
(* The configuration alone: ConfigManager() on a file, then changes made
   through set, the Save Settings button and the Reset button, with every
   outcome of the write *)

\* the files include JSON other than an object: null, [], [1-item],
\* [["k", "v"]] with a known and with an unknown key, and a pair followed by
\* a bad element
InitConfig ==
    /\ config_file \in ConfigFiles \cup
         {([JsonArray(<<>>) EXCEPT !.kind = "scalar"]), JsonArray(<<>>), JsonArray(<< <<"a">> >>),
          JsonArray(<< <<"target_language", "xx">> >>),
          JsonArray(<< <<"a", "b">> >>),
          JsonArray(<< <<"target_language", "xx">>, <<"a", "b", "c">> >>)}
    /\ defaults = DEFAULT_CONFIG
    /\ config = load_config(config_file)
    /\ config_is_defaults = FALSE
    /\ ui_blocked = 0
    /\ windows_available = TRUE
    /\ InitSelector
    /\ InitWindow
    /\ InitEngines
    /\ NoCalls({})

\* a direct call of ConfigManager.set
SetCall ==
    /\ \E value \in {"0.5", "0.9"}, w \in WriteOutcomes :
         ConfigManager_set("window_opacity", value, w)
    /\ UNCHANGED <<selector_vars, window_vars, engine_vars, threads, call_vars, ui_blocked>>

NextConfig ==
    \/ UiIdle /\ SetCall
    \/ UiIdle /\ SaveSettings(WriteOutcomes)
    \/ UiIdle /\ ResetSettings(WriteOutcomes)
    \/ RefreshReturns

SpecConfig == InitConfig /\ [][NextConfig]_vars

-----------------------------------------------------------------------------
(* The Settings tab alone: SettingsWidget() on a configuration, then Save
   Settings and Reset clicked with no edit of a widget in between *)

\* MainWindow built with a configuration file naming a target language the
\* translator knows, the backends and a model: SettingsWidget.__init__ builds
\* the combos, each showing its first item and the model combo empty, and
\* calls load_settings
InitSettings ==
    /\ config_file \in
         {JsonFile([target_language |-> l, ocr_backend |-> o,
                    translation_backend |-> b, ollama_model |-> m]) :
            l \in {"es", "en", "fr", "de", "it", "pt", "ru", "ja", "ko", "zh", "ar", "hi",
                   "vi", "th"},
            o \in {"tesseract", "windows"}, b \in TranslationBackends,
            m \in {<<"llama3">>, <<"gemma">>}}
    /\ defaults = DEFAULT_CONFIG
    /\ config = load_config(config_file)
    /\ config_is_defaults = FALSE
    /\ ui_blocked = 0
    /\ windows_available = TRUE
    /\ InitSelector
    /\ InitWindow
    /\ InitEngines
    /\ NoCalls({"widgets"})
    /\ \E r1, r2 \in ModelLists :
         widgets = load_settings([ocr |-> "Tesseract", lang |-> "GB English",
                                  backend |-> "Ollama (Offline)",
                                  model |-> [items |-> <<>>, idx |-> 0, text |-> <<>>]],
                                 config, HttpConnectionError, r1, r2)

\* a click on Save Settings with the widgets as load_settings left them
SettingsSave ==
    /\ CanClick
    /\ save_settings(IF widgets.ocr = "Windows OCR" THEN "windows" ELSE "tesseract",
                     lang_reverse_map(widgets.lang),
                     IF widgets.backend = "Ollama (Offline)" THEN "ollama" ELSE "google",
                     widgets.model.text, "written")
    /\ UNCHANGED <<selector_vars, window_vars, engine_vars, threads, call_vars, ui_blocked>>

\* a click on Reset answered Yes: reset_settings goes on into load_settings
SettingsReset ==
    /\ CanClick
    /\ reset_settings("written")
    /\ \E r0, r1, r2 \in ModelLists : widgets' = load_settings(widgets, config', r0, r1, r2)
    /\ UNCHANGED <<selector_vars, window_vars, ocr_backend, ocr_language,
                   windows_available, te_backend, threads,
                   tr_call, clean_call, ocr_call, resize_call>>

SpecSettings ==
    InitSettings /\ [][(UiIdle /\ SettingsSave) \/ (UiIdle /\ SettingsReset) \/ RefreshReturns]_vars

-----------------------------------------------------------------------------
(* Properties *)

\* a capture is between the click on the trigger and the end of its selection
CaptureInFlight == single_shot_pending \/ check_timer_active

\* C1: at most one pipeline run is in flight at any time, and while a capture
\* or a ProcessingThread is in flight the capture trigger is disabled.
C1_OneRunInFlight ==
    /\ Len(threads) + (IF CaptureInFlight THEN 1 ELSE 0) <= 1
    /\ (CaptureInFlight \/ Len(threads) > 0) => ~capture_btn_enabled

\* a run is in flight while the user has clicked Copy and saved other settings
C1_Witness ==
    /\ Len(threads) = 1
    /\ threads[1].pc = "translate"
    /\ status_label = "Original text copied to clipboard!"
    /\ config.translation_backend # te_backend

\* C2: under either OCR backend, a run whose recognition raised ends with
\* status 'OCR failed' and never invokes the translator.
C2_RaisedRecognitionFails ==
    \A i \in 1..Len(threads) :
        threads[i].ocr_raised =>
            /\ ~threads[i].tr_invoked
            /\ threads[i].pc = "emitted" => threads[i].status = "OCR failed"

\* C3: under either OCR backend, a run whose recognizer recognized nothing
\* ends with status 'OCR failed' and never invokes the translator.
C3_NoTextFails ==
    \A i \in 1..Len(threads) :
        threads[i].ocr_nothing =>
            /\ ~threads[i].tr_invoked
            /\ threads[i].pc = "emitted" => threads[i].status = "OCR failed"

\* C4: a run that reached translation completes with status 'Completed'
\* whatever translate returned, and on_processing_complete shows that return
\* value as the translated text under the completed status line.
C4_TranslationAlwaysCompletes ==
    /\ [](\A i \in 1..Len(threads) :
            /\ threads[i].tr_invoked => threads[i].pc = "emitted" /\ threads[i].status = "Completed"
            /\ (threads[i].pc = "emitted" /\ ~OcrFailed(threads[i].original)) =>
                   threads[i].tr_invoked /\ threads[i].status = "Completed")
    /\ [][\A i \in 1..Len(threads) :
            (OnProcessingComplete(i) /\ threads[i].tr_invoked) =>
                /\ translated_text' = threads[i].translated
                /\ status_label' = "Translation completed!"]_vars

\* a translator error string is on display under the completed status line
C4_Witness ==
    /\ translated_text = CannotConnect
    /\ status_label = "Translation completed!"
    /\ threads = <<>>

\* C5: when the selection ends with no result, check_capture_complete reports
\* 'Capture cancelled', starts no worker, leaves the displayed original and
\* translated text as they were, shows the window and enables the trigger.
C5_NoResultReturnsToIdle ==
    [][(CheckCaptureComplete /\ get_selected_image.null) =>
          /\ status_label' = "Capture cancelled"
          /\ threads' = threads
          /\ original_text' = original_text
          /\ translated_text' = translated_text
          /\ capture_btn_enabled'
          /\ main_visible']_vars

\* a too-small box was reported as cancelled with an earlier result on display
C5_Witness ==
    /\ status_label = "Capture cancelled"
    /\ drag_done
    /\ ~esc_pressed
    /\ translated_text # <<>>
    /\ capture_btn_enabled
    /\ threads = <<>>

\* the normalized rectangle of the drag a release completed
DragRect == Normalized(QRect(begin, end))

\* C6: after a completed drag whose normalized rectangle is at most 10 px wide
\* or at most 10 px high, the overlay is hidden and get_selected_image is None.
C6_SmallBoxNoResult ==
    (drag_done /\ (Width(DragRect) <= MinSize \/ Height(DragRect) <= MinSize)) =>
        ~sel_visible /\ get_selected_image.null

\* a drag 10 px wide and more than 10 px high was completed
C6_Witness ==
    /\ drag_done
    /\ Width(DragRect) = MinSize
    /\ Height(DragRect) > MinSize
    /\ get_selected_image.null

\* the four drags between the opposite corners of the box spanned by p and q
Diagonals(p, q) ==
    {<<p, q>>, <<q, p>>, <<QPoint(p.x, q.y), QPoint(q.x, p.y)>>,
     <<QPoint(q.x, p.y), QPoint(p.x, q.y)>>}

\* C7: for a valid drag the crop has the normalized rectangle's size, and the
\* four diagonal drags over the same corners give the same normalized rectangle.
C7_CropIndependentOfDirection ==
    (drag_done /\ ~get_selected_image.null) =>
        /\ get_selected_image.w = Width(DragRect)
        /\ get_selected_image.h = Height(DragRect)
        /\ \A d \in Diagonals(begin, end) : Normalized(QRect(d[1], d[2])) = DragRect

\* C8: once Escape was pressed in a capture, whatever presses and moves came
\* before and whatever release comes after, the overlay is hidden and
\* get_selected_image is None.
C8_EscapeCancels == esc_pressed => ~sel_visible /\ get_selected_image.null

\* Escape came during a drag wide and high enough, and the button has since
\* been released
C8_Witness ==
    /\ esc_pressed
    /\ begin = QPoint(MaxCoord, 0)
    /\ LargeEnough(DragRect)
    /\ ~button_down

\* C9: translate of an empty or whitespace-only text returns the empty string
\* and makes no backend call, whatever the backend.
C9_BlankInputNoCall ==
    (tr_call.done /\ Strip(tr_call.text) = <<>>) =>
        tr_call.result = <<>> /\ tr_call.calls = <<>>

\* a whitespace-only text was given to the local-model backend
C9_Witness ==
    /\ tr_call.done
    /\ tr_call.text = <<" ", "\n">>
    /\ tr_call.backend = "ollama"

\* the call reached the generation endpoint, which answered 404
Answered404 ==
    /\ tr_call.done
    /\ tr_call.backend = "ollama"
    /\ Strip(tr_call.text) # <<>>
    /\ tr_call.gen.kind = "response"
    /\ tr_call.gen.status = 404

\* the model-list request succeeded
ModelListFetched ==
    /\ tr_call.tags.kind = "response"
    /\ tr_call.tags.status = 200
    /\ tr_call.tags.json_ok

\* C10: on a 404 from the generation endpoint the returned string contains the
\* requested model name, and when the model-list request succeeded it contains
\* every available model name.
C10_NotFoundNamesModel ==
    Answered404 =>
        /\ Contains(tr_call.result, tr_call.config.ollama_model)
        /\ ModelListFetched =>
               \A i \in 1..Len(tr_call.tags.json.models) :
                   Contains(tr_call.result, tr_call.tags.json.models[i])

\* a 404 was answered with two models listed, neither the requested one
C10_Witness ==
    /\ Answered404
    /\ ModelListFetched
    /\ Len(tr_call.tags.json.models) = 2
    /\ tr_call.config.ollama_model = <<"gemma", ":", "2", "b">>

\* the quote characters a response can be wrapped in
Quotes == {"\"", "'"}

\* t without a leading label, matched in any case, and trimmed again
Unlabelled(t) ==
    IF StartsWith(Lower(t), TranslationLabel)
    THEN Strip(SubSeq(t, Len(TranslationLabel) + 1, Len(t)))
    ELSE t

\* t without one layer of surrounding quotes: an opening quote and the same
\* character closing it
Unquoted(t) ==
    IF Len(t) >= 2 /\ t[1] \in Quotes /\ t[Len(t)] = t[1]
    THEN SubSeq(t, 2, Len(t) - 1)
    ELSE t

\* the generation endpoint answered 200 with a JSON object
Answered200 ==
    /\ tr_call.done
    /\ tr_call.gen.kind = "response"
    /\ tr_call.gen.status = 200
    /\ tr_call.gen.json_ok

\* C11: on a 200 answer the output is the trimmed response without its leading
\* label and then without exactly one layer of matching surrounding quotes; a
\* response with neither comes back unchanged apart from trimming.
C11_LabelAndOneQuoteLayer ==
    Answered200 =>
        tr_call.result = Unquoted(Unlabelled(Strip(tr_call.gen.json.response)))


\* the failure of the generation request a call ran into, "none" for a 200 or
\* 404 answer and for any other exception
FailureKind(gen) ==
    IF gen.kind = "ConnectionError" THEN "connect"
    ELSE IF gen.kind = "Timeout" THEN "timeout"
    ELSE IF gen.kind = "response" /\ gen.status \notin {200, 404} THEN "http"
    ELSE "none"

\* a call of the local-model backend that reached the generation request
OllamaCalled ==
    /\ tr_call.done
    /\ tr_call.backend = "ollama"
    /\ Strip(tr_call.text) # <<>>

\* C12: a connection failure, a timeout and an HTTP status other than 200 and
\* 404 each come back from translate as a non-empty error string naming the
\* failure, and the strings of two different failures are never equal.
C12_FailuresReturnedAndDistinct ==
    (OllamaCalled /\ FailureKind(tr_call.gen) # "none") =>
        /\ tr_call.result # <<>>
        /\ FailureKind(tr_call.gen) = "connect" => Contains(tr_call.result, <<"Cannot connect to Ollama">>)
        /\ FailureKind(tr_call.gen) = "timeout" => Contains(tr_call.result, <<"Ollama request timed out">>)
        /\ FailureKind(tr_call.gen) = "http" =>
               Contains(tr_call.result, <<"HTTP", " ", ToString(tr_call.gen.status)>>)
        /\ \A e \in TrEnvs :
               FailureKind(e.gen) \notin {"none", FailureKind(tr_call.gen)} =>
                   translate(tr_call.text, tr_call.target_lang, tr_call.backend,
                             tr_call.config, e).text # tr_call.result

\* the generation request timed out and the call returned
C12_Witness ==
    /\ OllamaCalled
    /\ tr_call.gen = HttpTimeout
    /\ tr_call.result = TimedOut


\* C13: in every reachable state the UI thread is outside any blocking network
\* or OCR call; such calls are made by worker threads only.
C13_UiThreadNeverBlocks == ui_blocked = 0

\* C14: the configuration is written (settings saved or reset) only while no
\* ProcessingThread run is in flight.
C14_WritesOnlyBetweenRuns ==
    [][(SaveSettings(FewWrites) \/ ResetSettings(FewWrites)) => threads = <<>>]_vars


\* the requests among calls that ask a backend for a translation
TranslationRequests(calls) ==
    SelectSeq(calls, LAMBDA c : c.api \in {"generate", "google"})

\* C15: in every run the translator is invoked at most once, only after the
\* extraction of that run has returned a usable text, and with exactly that
\* text; and no two runs exist side by side.
C15_ExtractionPrecedesTranslation ==
    /\ Len(threads) <= 1
    /\ \A i \in 1..Len(threads) :
        LET t == threads[i] IN
        /\ t.pc = "extract" => ~t.tr_invoked /\ t.calls = <<>> /\ t.original = <<>>
        /\ t.tr_invoked => t.pc = "emitted" /\ ~OcrFailed(t.original)
        /\ t.calls # <<>> => t.tr_invoked
        /\ Len(TranslationRequests(t.calls)) <= 1
        /\ \A k \in 1..Len(t.calls) :
               t.calls[k].api \in {"generate", "google"} => t.calls[k].text = t.original

\* a run has handed the hosted API the text its extraction returned
C15_Witness ==
    /\ Len(threads) = 1
    /\ threads[1].tr_invoked
    /\ threads[1].original = Hi \o <<"!">>
    /\ Len(threads[1].calls) = 1
    /\ threads[1].calls[1].api = "google"


\* the state of the orchestrator: a run whose signal is emitted and not yet
\* delivered is still in the state it ended in, and Done is entered when
\* on_processing_complete runs
Phase ==
    IF CaptureInFlight THEN "AwaitingSelection"
    ELSE IF threads = <<>> THEN "Idle"
    ELSE IF threads[1].pc = "extract" THEN "Extracting"
    ELSE IF threads[1].pc = "translate" THEN "Translating"
    ELSE IF threads[1].tr_invoked THEN "Translating"
    ELSE "Extracting"

\* C16: every transition of the orchestrator from one state to another changes
\* the status message the user sees.
C16_TransitionsChangeStatus ==
    [][Phase' # Phase => status_label' # status_label]_vars


\* C17: every started capture eventually returns the orchestrator to Idle with
\* the capture trigger enabled again, whichever way the selection and the run end.
C17_CaptureReturnsToIdle ==
    ~capture_btn_enabled ~> (capture_btn_enabled /\ Phase = "Idle")


\* a run whose translation timed out was reported and the trigger is enabled
C17_Witness ==
    /\ capture_btn_enabled
    /\ Phase = "Idle"
    /\ status_label = "Translation completed!"
    /\ translated_text = TimedOut


\* C18: cleaning a text that a cleaner already cleaned changes nothing, for
\* the Windows cleaner and for the Tesseract-side cleaner
C18_CleaningIdempotent == clean_call.done => clean_call.twice = clean_call.once

\* a call whose first cleaning removed part of a text and kept the rest
C18_Witness ==
    /\ clean_call.done
    /\ clean_call.once # clean_call.text
    /\ clean_call.once # <<>>
    /\ clean_call.twice = clean_call.once


\* C19: loading never fails, and a file that is missing, unreadable, not
\* JSON or not a JSON object gives the default record; an object gives its
\* own keys with its values over the defaults
C19_LoadFallsBackToDefaults ==
    LET file == config_file
        loaded == load_config(file)
    IN  /\ ~(file.exists /\ file.valid /\ file.kind = "object") => loaded = DEFAULT_CONFIG
        /\ file.exists /\ file.valid /\ file.kind = "object" =>
              /\ \A k \in DOMAIN file.data : k \in DOMAIN loaded /\ loaded[k] = file.data[k]
              /\ \A k \in DOMAIN DEFAULT_CONFIG \ DOMAIN file.data :
                    loaded[k] = DEFAULT_CONFIG[k]

\* a step that changes the configuration through the manager
ConfigWrite == SetCall \/ SaveSettings(WriteOutcomes) \/ ResetSettings(WriteOutcomes)

\* C20: every change made through the manager leaves the file holding the
\* in-memory record, so that loading it gives that record back
C20_FileFollowsConfig ==
    [][ConfigWrite => config_file' = JsonFile(config') /\ load_config(config_file') = config']_vars


\* the candidate answers that carry a text, and the best score among them
Answered(win) == {i \in 1..Len(win) : win[i].kind = "text"}
BestScore(win) ==
    IF Answered(win) = {} THEN 0
    ELSE CHOOSE m \in {Score(win[i].text) : i \in Answered(win)} :
           \A i \in Answered(win) : Score(win[i].text) <= m
WindowsRan == ocr_call.done /\ ocr_call.backend = "windows" /\ ocr_call.available

\* C21: when the best score over the candidate tags that answered exceeds
\* 5, do_ocr returns the answer of the earliest tag that has that score,
\* whatever the other tags raised
C21_BestCandidateReturned ==
    WindowsRan /\ BestScore(ocr_call.env.win) > 5 =>
        LET win == ocr_call.env.win
            first == CHOOSE i \in Answered(win) :
                       /\ Score(win[i].text) = BestScore(win)
                       /\ \A j \in Answered(win) : Score(win[j].text) = BestScore(win) => i <= j
        IN  /\ ocr_call.res = win[first]
            /\ ocr_call.calls = common_langs

\* a later tag ties the best score with another text, and a tag raised
C21_Witness ==
    /\ WindowsRan
    /\ ocr_call.env.win[1].kind = "raise"
    /\ ocr_call.env.win[2] = Recognized(<<"a", "!", "!", "!">>)
    /\ ocr_call.env.win[3] = Recognized(Hi)
    /\ ocr_call.res = Recognized(<<"a", "!", "!", "!">>)


\* a language other than the default was requested of the Windows backend
TagRequested == WinLang(ocr_call.language) \notin {"auto", "en"}

\* C22: when no candidate scores above 5, do_ocr returns the answer for the
\* requested language's tag if one was requested and recognized, and a
\* "No text detected" result otherwise, whatever the candidates raised
C22_FallbackThenSentinel ==
    WindowsRan /\ BestScore(ocr_call.env.win) <= 5 =>
        IF TagRequested /\ ocr_call.env.req.kind = "text"
        THEN ocr_call.res = ocr_call.env.req
        ELSE /\ ocr_call.res.kind = "text"
             /\ StartsWith(ocr_call.res.text, NoTextDetected)


\* C23: with the Windows backend selected and the availability flag false,
\* extract_text asks nothing of the platform recognizer and returns the
\* message that winocr is not installed; the recognizer is asked only by an
\* engine whose flag is true
C23_RecognizerOnlyWhenAvailable ==
    ocr_call.done =>
        /\ ocr_call.backend = "windows" /\ ~ocr_call.available =>
              ocr_call.calls = <<>> /\ ocr_call.text = WinocrMissingShort
        /\ (\E i \in 1..Len(ocr_call.calls) : ocr_call.calls[i] # "tesseract") =>
              ocr_call.available

\* a call on the Windows backend of an engine whose flag is false
C23_Witness ==
    /\ ocr_call.done
    /\ ocr_call.backend = "windows"
    /\ ~ocr_call.available
    /\ ocr_call.text = WinocrMissingShort


\* an image with a side under the path's minimum and none over the largest
\* dimension was preprocessed
SmallImageResized ==
    /\ resize_call.done
    /\ \/ resize_call.width < min_dimension(resize_call.path)
       \/ resize_call.height < min_dimension(resize_call.path)
    /\ resize_call.width <= max_dimension
    /\ resize_call.height <= max_dimension

\* C24: an image with a side under the minimum (600 on the default path, 800
\* on the Windows path) comes out of preprocessing no narrower and no lower
\* than it went in, with its proportions kept up to the truncation of each side
C24_ResizeOnlyUpward ==
    SmallImageResized =>
        LET c == resize_call
            skew == c.new_width * c.height - c.new_height * c.width
        IN  /\ c.new_width >= c.width
            /\ c.new_height >= c.height
            /\ skew <= 2 * c.width /\ -skew <= 2 * c.height


\* a line whose meaningful characters are fewer than 2 and under 30% of it
NoiseLine(line) ==
    /\ TextLen(Strip(line)) > 0
    /\ MeaningfulCount(line) < 2
    /\ 10 * MeaningfulCount(line) < 3 * TextLen(Strip(line))

\* the meaningful characters of the lines that hold two of them or more
WordLines(text) ==
    LET full == SelectSeq(SplitLines(text), LAMBDA line : MeaningfulCount(line) >= 2)
    IN  [i \in 1..Len(full) |-> SelectSeq(full[i], LAMBDA c : MeaningfulTok(c) > 0)]

\* C25: the text either cleaner returns holds no noise line, and holds every
\* line of the input that has two meaningful characters or more
C25_NoiseLinesDropped ==
    clean_call.done =>
        /\ \A i \in 1..Len(SplitLines(clean_call.once)) :
              ~NoiseLine(SplitLines(clean_call.once)[i])
        /\ WordLines(clean_call.once) = WordLines(clean_call.text)


\* C26: once a capture has ended by Escape or by a box too small, no image
\* is there to fetch, whatever an earlier capture had stored
C26_NoStaleSelection ==
    (~sel_visible /\ (esc_pressed \/ (drag_done /\ ~LargeEnough(DragRect)))) =>
        get_selected_image.null

\* a capture ended with a too-small box while the text of an earlier capture
\* is on display
C26_Witness ==
    /\ ~sel_visible
    /\ drag_done
    /\ ~LargeEnough(DragRect)
    /\ original_text # <<>>
    /\ get_selected_image.null


\* C27: a run emits finished once, with the status "OCR failed" or
\* "Completed": an emitted signal stays as it is until its slot has run, and
\* the slot of a failed run empties the translation display
C27_OneSignalPerRun ==
    /\ [](\A i \in 1..Len(threads) :
            threads[i].pc = "emitted" =>
                /\ threads[i].status \in {"OCR failed", "Completed"}
                /\ threads[i].status = "OCR failed" => threads[i].translated = <<>>)
    /\ [][\A i \in 1..Len(threads) :
            threads[i].pc = "emitted" =>
                /\ \/ Len(threads') >= i /\ threads'[i] = threads[i]
                   \/ Len(threads') = Len(threads) - 1
                /\ OnProcessingComplete(i) /\ threads[i].status = "OCR failed" =>
                      translated_text' = <<>>]_vars

\* a run failed at recognition while the translation of an earlier run is on
\* display
C27_Witness ==
    /\ translated_text # <<>>
    /\ \E i \in 1..Len(threads) :
         threads[i].pc = "emitted" /\ threads[i].status = "OCR failed"


\* a run that has yet to call translate
RunAhead == \E i \in 1..Len(threads) : threads[i].pc \in {"extract", "translate"}

\* C28: while a run has its translation ahead, nothing changes the target
\* language, the backend, the server URL or the model name that translate
\* will read
C28_RunReadsStartConfig ==
    [][RunAhead /\ RunAhead' =>
          /\ te_backend' = te_backend
          /\ Get(TeConfig', "ollama_url", <<>>) = Get(TeConfig, "ollama_url", <<>>)
          /\ Get(TeConfig', "ollama_model", <<>>) = Get(TeConfig, "ollama_model", <<>>)
          /\ \A i \in 1..Len(threads) :
                threads[i].pc # "emitted" /\ i <= Len(threads') =>
                    threads'[i].target_lang = threads[i].target_lang]_vars


\* C29: the configuration in memory always has every key of the default
\* record, whatever was loaded, set, saved or reset; and the class-level
\* default record stays the hard-coded one, so that a reset gives the
\* original defaults.
C29_DefaultsKeptWhole ==
    /\ [](/\ DOMAIN DEFAULT_CONFIG \subseteq DOMAIN config
          /\ defaults = DEFAULT_CONFIG)
    /\ [][(\E w \in WriteOutcomes : reset_settings(w)) => config' = DEFAULT_CONFIG]_vars

\* a reset has run after a save: the file still holds the saved model, the
\* reset's write having been refused, and the configuration is the defaults
C29_Witness ==
    /\ config = DEFAULT_CONFIG
    /\ config_file.kind = "object"
    /\ "ollama_model" \in DOMAIN config_file.data
    /\ config_file.data.ollama_model # DEFAULT_CONFIG.ollama_model


\* the values save_settings writes for the widgets as they are
Shown ==
    [target_language |-> lang_reverse_map(widgets.lang),
     ocr_backend |-> IF widgets.ocr = "Windows OCR" THEN "windows" ELSE "tesseract",
     translation_backend |-> IF widgets.backend = "Ollama (Offline)" THEN "ollama" ELSE "google",
     ollama_model |-> widgets.model.text]

\* C30: with no edit since load_settings, save_settings writes back the
\* target language, the OCR backend, the translation backend and the model
\* name the configuration holds, whatever the model-list requests returned.
C30_SaveAfterLoadKeepsValues ==
    \A k \in DOMAIN Shown : Shown[k] = config[k]

=============================================================================
